---------------------------- MODULE Spec2Model ----------------------------
(***************************************************************************)
(* Model of the load balancer resource client of govultr                   *)
(* (load_balancer.go): the nine operations of LoadBalancerHandler, the     *)
(* wire shapes their struct tags define, and the collaborators they call   *)
(* (the Client's NewRequest / DoWithContext, the query encoder, and a mock *)
(* server behind the Client).                                              *)
(*                                                                         *)
(* Representation of Go values:                                            *)
(*   - a pointer is a sequence of length 0 (nil) or 1 (the pointee);       *)
(*   - a slice is a record [nil, elems]: a nil slice and an empty non-nil  *)
(*     slice are different Go values with the same length;                 *)
(*   - a string is a TLA+ string, concatenated with \o;                    *)
(*   - an error is a record [class, status]; NoErr is Go's nil error.      *)
(***************************************************************************)
EXTENDS Integers, Sequences, FiniteSets, TLC

(***************************************************************************)
(* Bounds of the model.                                                    *)
(***************************************************************************)
\* Number of callers that may be inside the handler at the same time.
NumCallers == 2

Callers == 1..NumCallers

(***************************************************************************)
(* Go value helpers.                                                       *)
(***************************************************************************)
NilPtr == <<>>
PtrTo(v) == <<v>>
IsNil(p) == Len(p) = 0
Deref(p) == p[1]

NilSlice == [nil |-> TRUE, elems |-> <<>>]
SliceOf(s) == [nil |-> FALSE, elems |-> s]

NoErr == [class |-> "nil", status |-> 0]

(***************************************************************************)
(* Domain types (zero values and the sample values the model draws from).  *)
(***************************************************************************)
ZeroHealthCheck ==
    [Protocol |-> "", Port |-> 0, Path |-> "", CheckInterval |-> 0,
     ResponseTimeout |-> 0, UnhealthyThreshold |-> 0, HealthyThreshold |-> 0]

SomeHealthCheck ==
    [Protocol |-> "http", Port |-> 80, Path |-> "/", CheckInterval |-> 10,
     ResponseTimeout |-> 5, UnhealthyThreshold |-> 3, HealthyThreshold |-> 4]

SomeStickySessions == [StickySessionsEnabled |-> "on", CookieName |-> "ck"]

SomeSSL == [PrivateKey |-> "key", Certificate |-> "crt", Chain |-> ""]

ZeroForwardingRule ==
    [RuleID |-> "", FrontendProtocol |-> "", FrontendPort |-> 0,
     BackendProtocol |-> "", BackendPort |-> 0]

SomeForwardingRule ==
    [RuleID |-> "", FrontendProtocol |-> "http", FrontendPort |-> 80,
     BackendProtocol |-> "http", BackendPort |-> 8080]

ZeroLoadBalancerReq ==
    [Region |-> "", Label |-> "", Instances |-> NilSlice,
     HealthCheck |-> NilPtr, StickySessions |-> NilPtr,
     ForwardingRules |-> NilSlice, SSL |-> NilPtr,
     SSLRedirect |-> FALSE, ProxyProtocol |-> FALSE,
     BalancingAlgorithm |-> ""]

\* The read model, cut to the fields the mock server fills.
ZeroLoadBalancer == [ID |-> "", Label |-> ""]

ZeroMeta == [Total |-> 0]

ZeroListOptions == [PerPage |-> 0, Cursor |-> ""]

(***************************************************************************)
(* encoding/json, as far as the struct tags of the write models use it.    *)
(* A JSON object is kept as the sequence of its members <<key, text>> in   *)
(* struct order, text being the member's JSON text.                        *)
(***************************************************************************)
Quote(s) == "\"" \o s \o "\""

BoolText(b) == IF b THEN "true" ELSE "false"

RECURSIVE JoinComma(_)
JoinComma(texts) ==
    IF Len(texts) = 0 THEN ""
    ELSE IF Len(texts) = 1 THEN texts[1]
    ELSE texts[1] \o "," \o JoinComma(Tail(texts))

ObjectText(members) ==
    "{" \o JoinComma([i \in 1..Len(members) |->
                        Quote(members[i][1]) \o ":" \o members[i][2]]) \o "}"

ArrayText(texts) == "[" \o JoinComma(texts) \o "]"

\* One struct field: with omitempty an empty value (false, 0, a nil pointer,
\* an empty string, a slice of length 0) emits no member at all.
Member(key, omitempty, empty, text) ==
    IF omitempty /\ empty THEN <<>> ELSE << <<key, text>> >>

StringMember(key, omitempty, s) == Member(key, omitempty, s = "", Quote(s))

IntMember(key, omitempty, n) == Member(key, omitempty, n = 0, ToString(n))

BoolMember(key, omitempty, b) == Member(key, omitempty, ~b, BoolText(b))

\* A nil slice encodes as null, a non-nil one as an array.
SliceText(sl, texts) == IF sl.nil THEN "null" ELSE ArrayText(texts)

HealthCheckMembers(h) ==
    StringMember("protocol", TRUE, h.Protocol)
    \o IntMember("port", TRUE, h.Port)
    \o StringMember("path", TRUE, h.Path)
    \o IntMember("check_interval", TRUE, h.CheckInterval)
    \o IntMember("response_timeout", TRUE, h.ResponseTimeout)
    \o IntMember("unhealthy_threshold", TRUE, h.UnhealthyThreshold)
    \o IntMember("healthy_threshold", TRUE, h.HealthyThreshold)

StickySessionsMembers(s) ==
    StringMember("sticky_sessions", TRUE, s.StickySessionsEnabled)
    \o StringMember("cookie_name", TRUE, s.CookieName)

ForwardingRuleMembers(r) ==
    StringMember("id", TRUE, r.RuleID)
    \o StringMember("frontend_protocol", TRUE, r.FrontendProtocol)
    \o IntMember("frontend_port", TRUE, r.FrontendPort)
    \o StringMember("backend_protocol", TRUE, r.BackendProtocol)
    \o IntMember("backend_port", TRUE, r.BackendPort)

SSLMembers(s) ==
    StringMember("ssl_private_key", TRUE, s.PrivateKey)
    \o StringMember("ssl_certificate", TRUE, s.Certificate)
    \o StringMember("chain", TRUE, s.Chain)

\* A pointer field: nil is empty; a non-nil pointer encodes its pointee.
PtrMember(key, omitempty, p, text) ==
    Member(key, omitempty, IsNil(p), IF IsNil(p) THEN "null" ELSE text)

\* A slice field: length 0 (nil or not) is empty.
SliceMember(key, omitempty, sl, texts) ==
    Member(key, omitempty, Len(sl.elems) = 0, SliceText(sl, texts))

\* Mutant of LoadBalancerReqMembers: ssl_redirect and label tagged without
\* omitempty.
LoadBalancerReqMembersNoOmit(r) ==
    StringMember("region", TRUE, r.Region)
    \o StringMember("label", FALSE, r.Label)
    \o SliceMember("instances", FALSE, r.Instances,
                   [i \in 1..Len(r.Instances.elems) |-> Quote(r.Instances.elems[i])])
    \o PtrMember("health_check", TRUE, r.HealthCheck,
                 IF IsNil(r.HealthCheck) THEN ""
                 ELSE ObjectText(HealthCheckMembers(Deref(r.HealthCheck))))
    \o PtrMember("sticky_session", TRUE, r.StickySessions,
                 IF IsNil(r.StickySessions) THEN ""
                 ELSE ObjectText(StickySessionsMembers(Deref(r.StickySessions))))
    \o SliceMember("forwarding_rules", TRUE, r.ForwardingRules,
                   [i \in 1..Len(r.ForwardingRules.elems) |->
                      ObjectText(ForwardingRuleMembers(r.ForwardingRules.elems[i]))])
    \o PtrMember("ssl", TRUE, r.SSL,
                 IF IsNil(r.SSL) THEN "" ELSE ObjectText(SSLMembers(Deref(r.SSL))))
    \o BoolMember("ssl_redirect", FALSE, r.SSLRedirect)
    \o BoolMember("proxy_protocol", TRUE, r.ProxyProtocol)
    \o StringMember("balancing_algorithm", TRUE, r.BalancingAlgorithm)

LoadBalancerReqMembers(r) ==
    StringMember("region", TRUE, r.Region)
    \o StringMember("label", TRUE, r.Label)
    \o SliceMember("instances", FALSE, r.Instances,
                   [i \in 1..Len(r.Instances.elems) |-> Quote(r.Instances.elems[i])])
    \o PtrMember("health_check", TRUE, r.HealthCheck,
                 IF IsNil(r.HealthCheck) THEN ""
                 ELSE ObjectText(HealthCheckMembers(Deref(r.HealthCheck))))
    \o PtrMember("sticky_session", TRUE, r.StickySessions,
                 IF IsNil(r.StickySessions) THEN ""
                 ELSE ObjectText(StickySessionsMembers(Deref(r.StickySessions))))
    \o SliceMember("forwarding_rules", TRUE, r.ForwardingRules,
                   [i \in 1..Len(r.ForwardingRules.elems) |->
                      ObjectText(ForwardingRuleMembers(r.ForwardingRules.elems[i]))])
    \o PtrMember("ssl", TRUE, r.SSL,
                 IF IsNil(r.SSL) THEN "" ELSE ObjectText(SSLMembers(Deref(r.SSL))))
    \o BoolMember("ssl_redirect", TRUE, r.SSLRedirect)
    \o BoolMember("proxy_protocol", TRUE, r.ProxyProtocol)
    \o StringMember("balancing_algorithm", TRUE, r.BalancingAlgorithm)

Keys(members) == {members[i][1] : i \in 1..Len(members)}


(***************************************************************************)
(* Requests, and the request line each operation asks the Client to build. *)
(***************************************************************************)
lbPath == "/v2/load-balancers"

MethodGet == "GET"
MethodPost == "POST"
MethodPatch == "PATCH"
MethodDelete == "DELETE"

Ops ==
    {"Create", "Get", "Update", "Delete", "List", "CreateForwardingRule",
     "GetForwardingRule", "ListForwardingRules", "DeleteForwardingRule"}

ListOps == {"List", "ListForwardingRules"}

NoReq == [method |-> "", path |-> "", query |-> "", hasBody |-> FALSE, body |-> <<>>]

\* The arguments of one invocation; an operation reads only its own.
\* lbReq and rule are the pointees of createReq / updateReq / rule.
NoArgs ==
    [ID |-> "", RuleID |-> "", lbReq |-> ZeroLoadBalancerReq,
     rule |-> ZeroForwardingRule, options |-> NilPtr]

\* What a successful client.NewRequest(ctx, method, uri, body) returns: a
\* request on uri with no query; a nil body gives a request without body.
NewRequest(method, uri, hasBody, body) ==
    [method |-> method, path |-> uri, query |-> "", hasBody |-> hasBody,
     body |-> body]

\* Mutant of ResourcePath: the separator is left out.
ResourcePathNoSlash(ID) == lbPath \o ID

\* fmt.Sprintf("%s/%s", lbPath, ID)
ResourcePath(ID) == lbPath \o "/" \o ID

\* fmt.Sprintf("%s/%s/forwarding-rules", lbPath, ID)
RulesPath(ID) == lbPath \o "/" \o ID \o "/forwarding-rules"

\* fmt.Sprintf("%s/%s/forwarding-rules/%s", lbPath, ID, ruleID)
RulePath(ID, ruleID) == lbPath \o "/" \o ID \o "/forwarding-rules/" \o ruleID

CreateRequest(a) ==
    NewRequest(MethodPost, lbPath, TRUE, LoadBalancerReqMembers(a.lbReq))

GetRequest(a) == NewRequest(MethodGet, ResourcePath(a.ID), FALSE, <<>>)

UpdateRequest(a) ==
    NewRequest(MethodPatch, ResourcePath(a.ID), TRUE, LoadBalancerReqMembers(a.lbReq))

DeleteRequest(a) == NewRequest(MethodDelete, ResourcePath(a.ID), FALSE, <<>>)

ListRequest(a) == NewRequest(MethodGet, lbPath, FALSE, <<>>)

CreateForwardingRuleRequest(a) ==
    NewRequest(MethodPost, RulesPath(a.ID), TRUE, ForwardingRuleMembers(a.rule))

GetForwardingRuleRequest(a) ==
    NewRequest(MethodGet, RulePath(a.ID, a.RuleID), FALSE, <<>>)

ListForwardingRulesRequest(a) == NewRequest(MethodGet, RulesPath(a.ID), FALSE, <<>>)

DeleteForwardingRuleRequest(a) ==
    NewRequest(MethodDelete, RulePath(a.ID, a.RuleID), FALSE, <<>>)

HandlerRequest(o, a) ==
    CASE o = "Create" -> CreateRequest(a)
      [] o = "Get" -> GetRequest(a)
      [] o = "Update" -> UpdateRequest(a)
      [] o = "Delete" -> DeleteRequest(a)
      [] o = "List" -> ListRequest(a)
      [] o = "CreateForwardingRule" -> CreateForwardingRuleRequest(a)
      [] o = "GetForwardingRule" -> GetForwardingRuleRequest(a)
      [] o = "ListForwardingRules" -> ListForwardingRulesRequest(a)
      [] o = "DeleteForwardingRule" -> DeleteForwardingRuleRequest(a)

(***************************************************************************)
(* The query encoder: query.Values(options) then url.Values.Encode().      *)
(* ListOptions is declared outside load_balancer.go; its two controls and  *)
(* their parameter names are those the specification gives (cursor and     *)
(* limit), both left out when zero.                                        *)
(***************************************************************************)
\* url.QueryEscape on the cursors the model draws: a space becomes "+".
QueryEscape(s) == IF s = "a b" THEN "a+b" ELSE s

\* query.Values: the key/value pairs of the options; a nil pointer has none.
QueryValues(options) ==
    IF IsNil(options) THEN {}
    ELSE LET o == Deref(options) IN
         (IF o.Cursor = "" THEN {} ELSE {<<"cursor", o.Cursor>>})
         \cup (IF o.PerPage = 0 THEN {} ELSE {<<"limit", ToString(o.PerPage)>>})

\* The keys url.Values.Encode can meet here, in the byte order it sorts by.
SortedKeys == <<"cursor", "limit">>

\* url.Values.Encode: key=value pairs joined by "&", sorted by key.
EncodeValues(values) ==
    LET present == SelectSeq(SortedKeys, LAMBDA k : \E p \in values : p[1] = k)
        valueOf(k) == (CHOOSE p \in values : p[1] = k)[2]
        join[i \in 0..Len(present)] ==
            IF i = 0 THEN ""
            ELSE join[i - 1] \o (IF i = 1 THEN "" ELSE "&")
                 \o present[i] \o "=" \o QueryEscape(valueOf(present[i]))
    IN  join[Len(present)]

\* Mutant of WithRawQuery: the assignment is lost, the request keeps the
\* query it was built with.
WithRawQueryKept(r, q) == [r EXCEPT !.query = r.query]

\* req.URL.RawQuery = newValues.Encode()
WithRawQuery(r, q) == [r EXCEPT !.query = q]


(***************************************************************************)
(* Errors of the collaborators.                                            *)
(***************************************************************************)
RequestBuildError == [class |-> "RequestBuildError", status |-> 0]
QueryEncodeError == [class |-> "QueryEncodeError", status |-> 0]
TransportError == [class |-> "TransportError", status |-> 0]
DecodeError == [class |-> "DecodeError", status |-> 0]
RemoteError(status) == [class |-> "RemoteError", status |-> status]

StatusOK == 200
StatusNoContent == 204
StatusBadRequest == 400
StatusNotFound == 404
StatusInternalServerError == 500

(***************************************************************************)
(* The mock server behind the Client: a store of load balancers and of     *)
(* their forwarding rules, addressed by the REST table.  It answers        *)
(* NotFound for what it does not hold and assigns identifiers itself.      *)
(***************************************************************************)
IDs == {"", "lb-1", "lb-2"}
RuleIDs == {"", "r1", "r2"}
Labels == {"", "web", "api"}
Protocols == {"", "http"}

\* The identifiers the server assigns, in the order it hands them out.
ServerIDSeq == <<"lb-1", "lb-2">>
ServerRuleIDSeq == <<"r1", "r2">>

CollectionRoot == "/v2/load-balancers"

\* A response body: the keys present in the envelope and their values.
NoReply ==
    [status |-> 0, has |-> {}, load_balancer |-> ZeroLoadBalancer,
     load_balancers |-> <<>>, forwarding_rule |-> ZeroForwardingRule,
     forwarding_rules |-> <<>>, meta |-> ZeroMeta]

Target(o, id, rid) == [op |-> o, ID |-> id, RuleID |-> rid]

Targets ==
    {Target(o, "", "") : o \in {"Create", "List"}}
    \cup {Target(o, id, "") :
            o \in {"Get", "Update", "Delete", "CreateForwardingRule",
                   "ListForwardingRules"}, id \in IDs}
    \cup {Target(o, id, rid) :
            o \in {"GetForwardingRule", "DeleteForwardingRule"},
            id \in IDs, rid \in RuleIDs}

RestMethod(o) ==
    CASE o \in {"Create", "CreateForwardingRule"} -> "POST"
      [] o \in {"Get", "List", "GetForwardingRule", "ListForwardingRules"} -> "GET"
      [] o = "Update" -> "PATCH"
      [] o \in {"Delete", "DeleteForwardingRule"} -> "DELETE"

RestPath(t) ==
    CASE t.op \in {"Create", "List"} -> CollectionRoot
      [] t.op \in {"Get", "Update", "Delete"} -> CollectionRoot \o "/" \o t.ID
      [] t.op \in {"CreateForwardingRule", "ListForwardingRules"} ->
            CollectionRoot \o "/" \o t.ID \o "/forwarding-rules"
      [] t.op \in {"GetForwardingRule", "DeleteForwardingRule"} ->
            CollectionRoot \o "/" \o t.ID \o "/forwarding-rules/" \o t.RuleID

Route(r) == {t \in Targets : RestMethod(t.op) = r.method /\ RestPath(t) = r.path}

\* The string value of a member of a request body, "" when it is absent.
BodyString(body, key, domain) ==
    IF key \in Keys(body)
    THEN LET text == body[CHOOSE i \in 1..Len(body) : body[i][1] = key][2]
         IN  CHOOSE s \in domain : Quote(s) = text
    ELSE ""

FirstFree(seq, used) == SelectSeq(seq, LAMBDA x : x \notin used)

Perms(S) ==
    {f \in [1..Cardinality(S) -> S] :
        \A i, j \in 1..Cardinality(S) : i # j => f[i] # f[j]}

HeldIDs(L) == {lb.ID : lb \in L}
LbOf(L, id) == CHOOSE lb \in L : lb.ID = id
RulesOf(R, id) == {x.Rule : x \in {y \in R : y.LB = id}}
HoldsRule(R, id, rid) == \E x \in R : x.LB = id /\ x.Rule.RuleID = rid
RuleOf(R, id, rid) == (CHOOSE x \in R : x.LB = id /\ x.Rule.RuleID = rid).Rule

\* The orders in which the server may list what a request asks for.
ListOrders(r, L, R) ==
    LET ts == Route(r) IN
    IF ts = {} THEN {<<>>}
    ELSE LET t == CHOOSE t \in ts : TRUE IN
         CASE t.op = "List" -> Perms(L)
           [] t.op = "ListForwardingRules" -> Perms(RulesOf(R, t.ID))
           [] OTHER -> {<<>>}

Outcome(status, reply, L, R) ==
    [reply |-> [reply EXCEPT !.status = status], lbs |-> L, rules |-> R]

Rejected(status, L, R) == Outcome(status, NoReply, L, R)

\* The server handling request r in store (L, R), listing in order ord:
\* its reply and the store it leaves.
Serve(r, L, R, ord) ==
    LET ts == Route(r) IN
    IF ts = {} THEN Rejected(StatusNotFound, L, R)
    ELSE
    LET t == CHOOSE t \in ts : TRUE
        held == t.ID \in HeldIDs(L)
    IN
    CASE t.op = "Create" ->
           LET free == FirstFree(ServerIDSeq, HeldIDs(L)) IN
           IF Len(free) = 0 THEN Rejected(StatusBadRequest, L, R)
           ELSE LET new == [ID |-> free[1],
                            Label |-> BodyString(r.body, "label", Labels)]
                IN  Outcome(StatusOK,
                            [NoReply EXCEPT !.has = {"load_balancer"},
                                            !.load_balancer = new],
                            L \cup {new}, R)
      [] t.op = "Get" ->
           IF ~held THEN Rejected(StatusNotFound, L, R)
           ELSE Outcome(StatusOK,
                        [NoReply EXCEPT !.has = {"load_balancer"},
                                        !.load_balancer = LbOf(L, t.ID)],
                        L, R)
      [] t.op = "Update" ->
           IF ~held THEN Rejected(StatusNotFound, L, R)
           ELSE LET old == LbOf(L, t.ID)
                    new == IF "label" \in Keys(r.body)
                           THEN [old EXCEPT !.Label =
                                    BodyString(r.body, "label", Labels)]
                           ELSE old
                IN  Outcome(StatusNoContent, NoReply, (L \ {old}) \cup {new}, R)
      [] t.op = "Delete" ->
           IF ~held THEN Rejected(StatusNotFound, L, R)
           ELSE Outcome(StatusNoContent, NoReply, L \ {LbOf(L, t.ID)},
                        {x \in R : x.LB # t.ID})
      [] t.op = "List" ->
           Outcome(StatusOK,
                   [NoReply EXCEPT !.has = {"load_balancers", "meta"},
                                   !.load_balancers = ord,
                                   !.meta = [Total |-> Cardinality(L)]],
                   L, R)
      [] t.op = "CreateForwardingRule" ->
           LET free == FirstFree(ServerRuleIDSeq,
                                 {x.RuleID : x \in RulesOf(R, t.ID)}) IN
           IF ~held THEN Rejected(StatusNotFound, L, R)
           ELSE IF Len(free) = 0 THEN Rejected(StatusBadRequest, L, R)
           ELSE LET new == [ZeroForwardingRule EXCEPT
                              !.RuleID = free[1],
                              !.FrontendProtocol =
                                  BodyString(r.body, "frontend_protocol", Protocols)]
                IN  Outcome(StatusOK,
                            [NoReply EXCEPT !.has = {"forwarding_rule"},
                                            !.forwarding_rule = new],
                            L, R \cup {[LB |-> t.ID, Rule |-> new]})
      [] t.op = "GetForwardingRule" ->
           IF ~HoldsRule(R, t.ID, t.RuleID) THEN Rejected(StatusNotFound, L, R)
           ELSE Outcome(StatusOK,
                        [NoReply EXCEPT !.has = {"forwarding_rule"},
                                        !.forwarding_rule =
                                            RuleOf(R, t.ID, t.RuleID)],
                        L, R)
      [] t.op = "ListForwardingRules" ->
           IF ~held THEN Rejected(StatusNotFound, L, R)
           ELSE Outcome(StatusOK,
                        [NoReply EXCEPT
                           !.has = {"forwarding_rules", "meta"},
                           !.forwarding_rules = ord,
                           !.meta = [Total |-> Cardinality(RulesOf(R, t.ID))]],
                        L, R)
      [] t.op = "DeleteForwardingRule" ->
           IF ~HoldsRule(R, t.ID, t.RuleID) THEN Rejected(StatusNotFound, L, R)
           ELSE Outcome(StatusNoContent, NoReply, L,
                        R \ {[LB |-> t.ID, Rule |-> RuleOf(R, t.ID, t.RuleID)]})


(***************************************************************************)
(* client.DoWithContext, the Transport's execute: it sends the request,    *)
(* turns a non-success status into a RemoteError and decodes a success     *)
(* body into the envelope it was handed (no decoding when out is nil).     *)
(* fault is what goes wrong on the way:                                    *)
(*   "transport"  the request never reaches the server;                    *)
(*   "5xx"        the server fails before touching its store;              *)
(*   "decode"     the success body does not parse;                         *)
(*   "nokey"      the success body lacks the envelope's entity key;        *)
(*   "nometa"     the success body of a listing lacks "meta".              *)
(***************************************************************************)
Faults == {"none", "transport", "5xx", "decode", "nokey", "nometa"}

\* Operations that hand DoWithContext an envelope to fill (out # nil).
DecodingOps == Ops \ {"Update", "Delete", "DeleteForwardingRule"}

FaultApplies(f, o) ==
    CASE f \in {"decode", "nokey"} -> o \in DecodingOps
      [] f = "nometa" -> o \in ListOps
      [] OTHER -> TRUE

EntityKeys == {"load_balancer", "load_balancers", "forwarding_rule", "forwarding_rules"}

\* [err, reply, lbs, rules]: the error DoWithContext returns, the body it
\* decoded, and the server's store afterwards.
DoWithContext(r, f, L, R, ord) ==
    LET s == Serve(r, L, R, ord) IN
    CASE f = "transport" ->
           [err |-> TransportError, reply |-> NoReply, lbs |-> L, rules |-> R]
      [] f = "5xx" ->
           [err |-> RemoteError(StatusInternalServerError),
            reply |-> [NoReply EXCEPT !.status = StatusInternalServerError],
            lbs |-> L, rules |-> R]
      [] OTHER ->
           IF s.reply.status >= StatusBadRequest
           THEN [err |-> RemoteError(s.reply.status), reply |-> s.reply,
                 lbs |-> s.lbs, rules |-> s.rules]
           ELSE [err |-> IF f = "decode" THEN DecodeError ELSE NoErr,
                 reply |-> CASE f = "nokey" ->
                                  [s.reply EXCEPT !.has = @ \ EntityKeys]
                             [] f = "nometa" ->
                                  [s.reply EXCEPT !.has = @ \ {"meta"}]
                             [] OTHER -> s.reply,
                 lbs |-> s.lbs, rules |-> s.rules]

(***************************************************************************)
(* The response envelopes (lbBase, lbsBase, lbRuleBase, lbRulesBase) as    *)
(* json decoding fills them: a key the body lacks leaves its field nil.    *)
(***************************************************************************)
lbBase(reply) ==
    [LoadBalancer |-> IF "load_balancer" \in reply.has
                      THEN PtrTo(reply.load_balancer) ELSE NilPtr]

lbsBase(reply) ==
    [LoadBalancers |-> IF "load_balancers" \in reply.has
                       THEN SliceOf(reply.load_balancers) ELSE NilSlice,
     Meta |-> IF "meta" \in reply.has THEN PtrTo(reply.meta) ELSE NilPtr]

lbRuleBase(reply) ==
    [ForwardingRule |-> IF "forwarding_rule" \in reply.has
                        THEN PtrTo(reply.forwarding_rule) ELSE NilPtr]

lbRulesBase(reply) ==
    [ForwardingRules |-> IF "forwarding_rules" \in reply.has
                         THEN SliceOf(reply.forwarding_rules) ELSE NilSlice,
     Meta |-> IF "meta" \in reply.has THEN PtrTo(reply.meta) ELSE NilPtr]

(***************************************************************************)
(* What each operation returns, given the error of DoWithContext and the   *)
(* body it decoded.  One record holds the results of all signatures; an    *)
(* operation leaves the fields it does not return nil.                     *)
(***************************************************************************)
NoRet ==
    [lb |-> NilPtr, lbs |-> NilSlice, rule |-> NilPtr, rules |-> NilSlice,
     meta |-> NilPtr, err |-> NoErr]

\* Mutant of ErrReturn: the error is wrapped before it is returned.
ErrReturnWrapped(err) ==
    [NoRet EXCEPT !.err = [class |-> "Wrapped", status |-> err.status]]

\* return nil, err  /  return nil, nil, err  /  return err
ErrReturn(err) == [NoRet EXCEPT !.err = err]

\* Mutant of lbBaseReturn: a missing entity becomes an empty load balancer.
lbBaseReturnFabricated(err, reply) ==
    IF err # NoErr THEN ErrReturn(err)
    ELSE [NoRet EXCEPT !.lb = IF IsNil(lbBase(reply).LoadBalancer)
                              THEN PtrTo(ZeroLoadBalancer)
                              ELSE lbBase(reply).LoadBalancer]

\* Create and Get: return lb.LoadBalancer, nil
lbBaseReturn(err, reply) ==
    IF err # NoErr THEN ErrReturn(err)
    ELSE [NoRet EXCEPT !.lb = lbBase(reply).LoadBalancer]

\* Mutant of NoValueReturn: NotFound is taken for success.
NoValueReturnIdempotent(err, reply) ==
    IF err # NoErr /\ err.status # StatusNotFound THEN ErrReturn(err) ELSE NoRet

\* Update, Delete and DeleteForwardingRule: return nil
NoValueReturn(err, reply) == IF err # NoErr THEN ErrReturn(err) ELSE NoRet

Reverse(seq) == [i \in 1..Len(seq) |-> seq[Len(seq) + 1 - i]]

\* Mutant of lbsBaseReturn: the listing is returned in reverse order.
lbsBaseReturnReordered(err, reply) ==
    IF err # NoErr THEN ErrReturn(err)
    ELSE [NoRet EXCEPT
            !.lbs = [lbsBase(reply).LoadBalancers EXCEPT !.elems = Reverse(@)],
            !.meta = lbsBase(reply).Meta]

\* List: return lbs.LoadBalancers, lbs.Meta, nil
lbsBaseReturn(err, reply) ==
    IF err # NoErr THEN ErrReturn(err)
    ELSE [NoRet EXCEPT !.lbs = lbsBase(reply).LoadBalancers,
                       !.meta = lbsBase(reply).Meta]

\* CreateForwardingRule and GetForwardingRule: return fwRule.ForwardingRule, nil
lbRuleBaseReturn(err, reply) ==
    IF err # NoErr THEN ErrReturn(err)
    ELSE [NoRet EXCEPT !.rule = lbRuleBase(reply).ForwardingRule]

\* ListForwardingRules: return fwRules.ForwardingRules, fwRules.Meta, nil
lbRulesBaseReturn(err, reply) ==
    IF err # NoErr THEN ErrReturn(err)
    ELSE [NoRet EXCEPT !.rules = lbRulesBase(reply).ForwardingRules,
                       !.meta = lbRulesBase(reply).Meta]

HandlerReturn(o, err, reply) ==
    CASE o \in {"Create", "Get"} -> lbBaseReturn(err, reply)
      [] o \in {"Update", "Delete", "DeleteForwardingRule"} -> NoValueReturn(err, reply)
      [] o = "List" -> lbsBaseReturn(err, reply)
      [] o \in {"CreateForwardingRule", "GetForwardingRule"} ->
            lbRuleBaseReturn(err, reply)
      [] o = "ListForwardingRules" -> lbRulesBaseReturn(err, reply)


(***************************************************************************)
(* State.                                                                  *)
(***************************************************************************)
VARIABLES
    handler,    \* the LoadBalancerHandler: its single field, client
    op,         \* per caller: the operation it is in ("" when in none)
    arg,        \* per caller: the arguments of that invocation
    pc,         \* per caller: idle, build, encode, exec, done
    req,        \* per caller: the local req of the invocation
    ret,        \* per caller: what the invocation returned
    nBuild,     \* per caller: calls of client.NewRequest in this invocation
    nExec,      \* per caller: calls of client.DoWithContext in this invocation
    reported,   \* per caller: the error a collaborator handed the invocation
    sent,       \* per caller: the request DoWithContext was given
    resp,       \* per caller: the body DoWithContext decoded for it
    fault,      \* per caller: what went wrong in its DoWithContext
    existed,    \* per caller: the server held the addressed resource when asked
    gone,       \* per caller: the addressed load balancer had been deleted before
    srvLbs,     \* the server's load balancers
    srvRules,   \* the server's forwarding rules, each with its load balancer
    deleted     \* identifiers deleted and not assigned again since

callVars == <<op, arg, pc, req, ret, nBuild, nExec, reported, sent, resp, fault,
              existed, gone>>
srvVars == <<srvLbs, srvRules, deleted>>
vars == <<handler, callVars, srvVars>>

TheClient == [client |-> "client"]

Init ==
    /\ handler = TheClient
    /\ op = [c \in Callers |-> ""]
    /\ arg = [c \in Callers |-> NoArgs]
    /\ pc = [c \in Callers |-> "idle"]
    /\ req = [c \in Callers |-> NoReq]
    /\ ret = [c \in Callers |-> NoRet]
    /\ nBuild = [c \in Callers |-> 0]
    /\ nExec = [c \in Callers |-> 0]
    /\ reported = [c \in Callers |-> NoErr]
    /\ sent = [c \in Callers |-> NoReq]
    /\ resp = [c \in Callers |-> NoReply]
    /\ fault = [c \in Callers |-> ""]
    /\ existed = [c \in Callers |-> FALSE]
    /\ gone = [c \in Callers |-> FALSE]
    /\ srvLbs = {}
    /\ srvRules = {}
    /\ deleted = {}

\* Whether store (L, R) holds what operation o with arguments a addresses.
TargetHeld(o, a, L, R) ==
    CASE o \in {"Get", "Update", "Delete", "CreateForwardingRule",
                "ListForwardingRules"} -> a.ID \in HeldIDs(L)
      [] o \in {"GetForwardingRule", "DeleteForwardingRule"} ->
            HoldsRule(R, a.ID, a.RuleID)
      [] OTHER -> TRUE

(***************************************************************************)
(* The steps of an invocation.  Every operation has the same shape:        *)
(* NewRequest, for the two listings query.Values and the RawQuery          *)
(* assignment, DoWithContext, return.                                      *)
(***************************************************************************)
\* A caller enters operation o with arguments a.
Invoke(c, o, a) ==
    /\ pc[c] = "idle"
    /\ op' = [op EXCEPT ![c] = o]
    /\ arg' = [arg EXCEPT ![c] = a]
    /\ pc' = [pc EXCEPT ![c] = "build"]
    /\ UNCHANGED <<handler, req, ret, nBuild, nExec, reported, sent, resp,
                   fault, existed, gone, srvVars>>

\* req, err := l.client.NewRequest(...); if err != nil { return ..., err }
Build(c, ok) ==
    /\ pc[c] = "build"
    /\ nBuild' = [nBuild EXCEPT ![c] = @ + 1]
    /\ IF ok
       THEN /\ req' = [req EXCEPT ![c] = HandlerRequest(op[c], arg[c])]
            /\ pc' = [pc EXCEPT ![c] = IF op[c] \in ListOps THEN "encode" ELSE "exec"]
            /\ UNCHANGED <<reported, ret>>
       ELSE /\ reported' = [reported EXCEPT ![c] = RequestBuildError]
            /\ ret' = [ret EXCEPT ![c] = ErrReturn(RequestBuildError)]
            /\ pc' = [pc EXCEPT ![c] = "done"]
            /\ UNCHANGED req
    /\ UNCHANGED <<handler, op, arg, nExec, sent, resp, fault, existed, gone,
                   srvVars>>

\* newValues, err := query.Values(options); if err != nil { return nil, nil, err }
\* req.URL.RawQuery = newValues.Encode()
Encode(c, ok) ==
    /\ pc[c] = "encode"
    /\ IF ok
       THEN /\ req' = [req EXCEPT ![c] =
                         WithRawQuery(@, EncodeValues(QueryValues(arg[c].options)))]
            /\ pc' = [pc EXCEPT ![c] = "exec"]
            /\ UNCHANGED <<reported, ret>>
       ELSE /\ reported' = [reported EXCEPT ![c] = QueryEncodeError]
            /\ ret' = [ret EXCEPT ![c] = ErrReturn(QueryEncodeError)]
            /\ pc' = [pc EXCEPT ![c] = "done"]
            /\ UNCHANGED req
    /\ UNCHANGED <<handler, op, arg, nBuild, nExec, sent, resp, fault, existed,
                   gone, srvVars>>

\* Mutant of RequestToSend: the request is kept in a field shared by the
\* invocations, so the one in flight the longest is sent.
RequestToSendShared(c) ==
    req[CHOOSE d \in Callers :
          pc[d] = "exec" /\ \A e \in Callers : pc[e] = "exec" => d <= e]

\* The request an invocation hands to DoWithContext: its own local req.
RequestToSend(c) == req[c]

\* Mutant of AfterExecute: a transport failure is tried again.
AfterExecuteRetry(err) == IF err = TransportError THEN "exec" ELSE "done"

\* Where an invocation goes when DoWithContext has returned: it returns.
AfterExecute(err) == "done"

\* if err = l.client.DoWithContext(ctx, req, out); err != nil { return ..., err }
\* return ..., nil
Execute(c, f) ==
    /\ pc[c] = "exec"
    /\ FaultApplies(f, op[c])
    /\ LET r == RequestToSend(c) IN
       \E ord \in ListOrders(r, srvLbs, srvRules) :
         LET d == DoWithContext(r, f, srvLbs, srvRules, ord)
             was == HeldIDs(srvLbs)
             now == HeldIDs(d.lbs)
         IN  /\ nExec' = [nExec EXCEPT ![c] = @ + 1]
             /\ sent' = [sent EXCEPT ![c] = r]
             /\ fault' = [fault EXCEPT ![c] = f]
             /\ existed' = [existed EXCEPT ![c] =
                              TargetHeld(op[c], arg[c], srvLbs, srvRules)]
             /\ gone' = [gone EXCEPT ![c] = arg[c].ID \in deleted]
             /\ reported' = [reported EXCEPT ![c] = d.err]
             /\ resp' = [resp EXCEPT ![c] = d.reply]
             /\ ret' = [ret EXCEPT ![c] = HandlerReturn(op[c], d.err, d.reply)]
             /\ pc' = [pc EXCEPT ![c] = AfterExecute(d.err)]
             /\ srvLbs' = d.lbs
             /\ srvRules' = d.rules
             /\ deleted' = (deleted \cup (was \ now)) \ (now \ was)
    /\ UNCHANGED <<handler, op, arg, req, nBuild>>

\* The caller has its result; its next invocation starts afresh.
Return(c) ==
    /\ pc[c] = "done"
    /\ op' = [op EXCEPT ![c] = ""]
    /\ arg' = [arg EXCEPT ![c] = NoArgs]
    /\ pc' = [pc EXCEPT ![c] = "idle"]
    /\ req' = [req EXCEPT ![c] = NoReq]
    /\ ret' = [ret EXCEPT ![c] = NoRet]
    /\ nBuild' = [nBuild EXCEPT ![c] = 0]
    /\ nExec' = [nExec EXCEPT ![c] = 0]
    /\ reported' = [reported EXCEPT ![c] = NoErr]
    /\ sent' = [sent EXCEPT ![c] = NoReq]
    /\ resp' = [resp EXCEPT ![c] = NoReply]
    /\ fault' = [fault EXCEPT ![c] = ""]
    /\ existed' = [existed EXCEPT ![c] = FALSE]
    /\ gone' = [gone EXCEPT ![c] = FALSE]
    /\ UNCHANGED <<handler, srvVars>>

(***************************************************************************)
(* The arguments callers draw from.                                        *)
(***************************************************************************)
Args(o, ids, rids, reqs, rules, opts) ==
    CASE o = "Create" -> {[NoArgs EXCEPT !.lbReq = r] : r \in reqs}
      [] o \in {"Get", "Delete"} -> {[NoArgs EXCEPT !.ID = id] : id \in ids}
      [] o = "Update" ->
            {[NoArgs EXCEPT !.ID = id, !.lbReq = r] : id \in ids, r \in reqs}
      [] o = "List" -> {[NoArgs EXCEPT !.options = p] : p \in opts}
      [] o = "CreateForwardingRule" ->
            {[NoArgs EXCEPT !.ID = id, !.rule = r] : id \in ids, r \in rules}
      [] o \in {"GetForwardingRule", "DeleteForwardingRule"} ->
            {[NoArgs EXCEPT !.ID = id, !.RuleID = rid] : id \in ids, rid \in rids}
      [] o = "ListForwardingRules" ->
            {[NoArgs EXCEPT !.ID = id, !.options = p] : id \in ids, p \in opts}

WebReq == [ZeroLoadBalancerReq EXCEPT !.Label = "web", !.Instances = SliceOf(<<"i1">>)]
ApiReq == [ZeroLoadBalancerReq EXCEPT !.Label = "api", !.SSLRedirect = TRUE]

SomeOptions ==
    {NilPtr, PtrTo(ZeroListOptions),
     PtrTo([PerPage |-> 25, Cursor |-> "abc"]),
     PtrTo([PerPage |-> 25, Cursor |-> ""]),
     PtrTo([PerPage |-> 0, Cursor |-> "a b"])}

(***************************************************************************)
(* Spec: one caller, one invocation after the other, every operation with  *)
(* every identifier and every fault.                                       *)
(***************************************************************************)
Next ==
    \/ /\ pc[1] = "idle"
       /\ \E o \in Ops :
            \E a \in Args(o, IDs, RuleIDs, {WebReq, ApiReq}, {SomeForwardingRule},
                          SomeOptions) : Invoke(1, o, a)
    \/ \E ok \in BOOLEAN : Build(1, ok)
    \/ \E ok \in BOOLEAN : Encode(1, ok)
    \/ \E f \in Faults : Execute(1, f)
    \/ Return(1)

Spec == Init /\ [][Next]_vars


(***************************************************************************)
(* SpecConc: NumCallers callers inside the handler at once, their steps    *)
(* interleaved at will, so a request may wait any time between being built *)
(* and being executed.                                                     *)
(***************************************************************************)
ConcOps == {"Create", "Get", "Delete"}

NextConc ==
    \E c \in Callers :
        \/ /\ pc[c] = "idle"
           /\ \E o \in ConcOps :
                \E a \in Args(o, {"lb-1"}, {}, {WebReq, ApiReq}, {}, {}) :
                    Invoke(c, o, a)
        \/ Build(c, TRUE)
        \/ \E f \in {"none", "transport"} : Execute(c, f)
        \/ Return(c)

SpecConc == Init /\ [][NextConc]_vars

(***************************************************************************)
(* SpecWrite: one caller issuing Create and Update with every write model  *)
(* over the field values below: each optional field unset, set to its zero *)
(* value where Go can tell the two apart, and set to a non-zero value.     *)
(***************************************************************************)
AllReqs ==
    [Region : {"", "ewr"},
     Label : {"", "web"},
     Instances : {NilSlice, SliceOf(<<>>), SliceOf(<<"i1">>)},
     HealthCheck : {NilPtr, PtrTo(ZeroHealthCheck), PtrTo(SomeHealthCheck)},
     StickySessions : {NilPtr, PtrTo(SomeStickySessions)},
     ForwardingRules : {NilSlice, SliceOf(<<>>), SliceOf(<<SomeForwardingRule>>)},
     SSL : {NilPtr, PtrTo(SomeSSL)},
     SSLRedirect : BOOLEAN,
     ProxyProtocol : BOOLEAN,
     BalancingAlgorithm : {"", "roundrobin"}]

NextWrite ==
    \/ /\ pc[1] = "idle"
       /\ \E o \in {"Create", "Update"} :
            \E a \in Args(o, {"lb-1"}, {}, AllReqs, {}, {}) : Invoke(1, o, a)
    \/ Build(1, TRUE)
    \/ Execute(1, "none")
    \/ Return(1)

SpecWrite == Init /\ [][NextWrite]_vars


(***************************************************************************)
(* Properties.                                                             *)
(***************************************************************************)
\* The request line the REST table gives operation o with arguments a.
TableLine(o, a) ==
    [method |-> RestMethod(o), path |-> RestPath(Target(o, a.ID, a.RuleID))]

LineOf(r) == [method |-> r.method, path |-> r.path]

\* NewRequest succeeded for caller c in its current invocation.
Built(c) == pc[c] \in {"encode", "exec", "done"} /\ reported[c] # RequestBuildError

\* C1: once NewRequest has succeeded, the request of every operation
\* carries the method and path of the REST table for its identifiers, the
\* empty identifier included; an invocation that ends without having
\* executed was failed by a collaborator, never by building its path.
C1_RequestLine ==
    \A c \in Callers :
        /\ Built(c) => LineOf(req[c]) = TableLine(op[c], arg[c])
        /\ (Built(c) /\ op[c] = "GetForwardingRule" /\ arg[c].ID = "lb-1"
              /\ arg[c].RuleID = "r1")
             => req[c].path = "/v2/load-balancers/lb-1/forwarding-rules/r1"
        /\ (Built(c) /\ op[c] = "Update" /\ arg[c].ID = "")
             => req[c].path = "/v2/load-balancers/"
        /\ (pc[c] = "done" /\ nExec[c] = 0)
             => reported[c] \in {RequestBuildError, QueryEncodeError}

C1_Witness ==
    \E c \in Callers :
        /\ pc[c] = "exec"
        /\ op[c] = "DeleteForwardingRule"
        /\ arg[c].ID = ""
        /\ arg[c].RuleID = "r2"
        /\ req[c].path = "/v2/load-balancers//forwarding-rules/r2"

\* C2: an invocation returns exactly the error its collaborator reported,
\* and with an error it returns nothing else: nil entity, nil sequence, nil
\* Meta.
C2_ErrorUnmodified ==
    \A c \in Callers :
        pc[c] = "done" =>
            /\ ret[c].err = reported[c]
            /\ reported[c] # NoErr => ret[c] = [NoRet EXCEPT !.err = reported[c]]

C2_Witness ==
    \E c \in Callers :
        /\ pc[c] = "done"
        /\ op[c] = "List"
        /\ reported[c] = DecodeError
        /\ ret[c].err = DecodeError

\* C3: an invocation calls NewRequest exactly once and DoWithContext at
\* most once: once when the request was built (and its query encoded),
\* never when either failed; no outcome of DoWithContext leads to a second
\* call.
C3_IssuedOnce ==
    \A c \in Callers :
        /\ pc[c] \in {"idle", "build"} => nBuild[c] = 0 /\ nExec[c] = 0
        /\ pc[c] \in {"encode", "exec"} => nBuild[c] = 1 /\ nExec[c] = 0
        /\ pc[c] = "done" =>
              /\ nBuild[c] = 1
              /\ nExec[c] = IF reported[c] \in {RequestBuildError, QueryEncodeError}
                            THEN 0 ELSE 1

C3_Witness ==
    \E c \in Callers :
        /\ pc[c] = "done"
        /\ reported[c] = TransportError
        /\ nBuild[c] = 1
        /\ nExec[c] = 1


OptionalFields ==
    {"Region", "Label", "HealthCheck", "StickySessions", "ForwardingRules",
     "SSL", "SSLRedirect", "ProxyProtocol", "BalancingAlgorithm"}

\* The wire key of each field of LoadBalancerReq.
KeyOf(f) ==
    CASE f = "Region" -> "region"
      [] f = "Label" -> "label"
      [] f = "Instances" -> "instances"
      [] f = "HealthCheck" -> "health_check"
      [] f = "StickySessions" -> "sticky_session"
      [] f = "ForwardingRules" -> "forwarding_rules"
      [] f = "SSL" -> "ssl"
      [] f = "SSLRedirect" -> "ssl_redirect"
      [] f = "ProxyProtocol" -> "proxy_protocol"
      [] f = "BalancingAlgorithm" -> "balancing_algorithm"

\* What a field holds when the caller's struct literal leaves it out.
UnsetValue(f) ==
    CASE f \in {"Region", "Label", "BalancingAlgorithm"} -> ""
      [] f \in {"SSLRedirect", "ProxyProtocol"} -> FALSE
      [] f \in {"HealthCheck", "StickySessions", "SSL"} -> NilPtr
      [] f = "ForwardingRules" -> NilSlice

\* What a field holds when the caller assigns it its zero value: "", false,
\* an empty sequence, a pointer to an empty struct.
ExplicitZeroValue(f) ==
    CASE f \in {"Region", "Label", "BalancingAlgorithm"} -> ""
      [] f \in {"SSLRedirect", "ProxyProtocol"} -> FALSE
      [] f = "HealthCheck" -> PtrTo(ZeroHealthCheck)
      [] f = "StickySessions" ->
            PtrTo([StickySessionsEnabled |-> "", CookieName |-> ""])
      [] f = "SSL" -> PtrTo([PrivateKey |-> "", Certificate |-> "", Chain |-> ""])
      [] f = "ForwardingRules" -> SliceOf(<<>>)

\* Caller c has a Create or Update request built from its write model.
Writing(c) == pc[c] \in {"exec", "done"} /\ op[c] \in {"Create", "Update"}

\* C4: in the body built for Create or Update no optional field that the
\* write model leaves unset appears as a key, and the instances key is
\* always there.
C4_UnsetOmitted ==
    \A c \in Callers :
        Writing(c) =>
            /\ "instances" \in Keys(req[c].body)
            /\ \A f \in OptionalFields :
                 arg[c].lbReq[f] = UnsetValue(f) => KeyOf(f) \notin Keys(req[c].body)

C4_Witness ==
    \E c \in Callers :
        /\ pc[c] = "done"
        /\ op[c] = "Update"
        /\ arg[c].lbReq = [ZeroLoadBalancerReq EXCEPT !.ProxyProtocol = TRUE]
        /\ Keys(sent[c].body) = {"instances", "proxy_protocol"}
        /\ ObjectText(sent[c].body) = "{\"instances\":null,\"proxy_protocol\":true}"

\* C5: for every optional field, an Update whose write model sets the
\* field to its zero value sends a body different from the body of the
\* same Update with the field left unset.
C5_ZeroDiffersFromUnset ==
    \A c \in Callers :
        (pc[c] = "exec" /\ op[c] = "Update") =>
            \A f \in OptionalFields :
                arg[c].lbReq[f] = ExplicitZeroValue(f) =>
                    req[c].body #
                        LoadBalancerReqMembers(
                            [arg[c].lbReq EXCEPT ![f] = UnsetValue(f)])


\* The body on the wire for the two write models concurrent callers use.
OwnBody(o, a) ==
    CASE o = "Create" /\ a.lbReq = WebReq ->
           << <<"label", "\"web\"">>, <<"instances", "[\"i1\"]">> >>
      [] o = "Create" /\ a.lbReq = ApiReq ->
           << <<"label", "\"api\"">>, <<"instances", "null">>,
              <<"ssl_redirect", "true">> >>
      [] OTHER -> <<>>

\* The request derived from an invocation's own arguments.
OwnRequest(o, a) ==
    [method |-> RestMethod(o), path |-> RestPath(Target(o, a.ID, a.RuleID)),
     query |-> "", hasBody |-> o = "Create", body |-> OwnBody(o, a)]

\* C6: however the steps of concurrent invocations interleave, the request
\* an invocation holds and the request it executes are the one derived from
\* its own arguments, what it returns is decoded from the response to that
\* request (a Create returns the load balancer labelled as it asked, a Get
\* the load balancer it named), and the handler's only field never changes.
C6_NoCrossTalk ==
    /\ handler = TheClient
    /\ \A c \in Callers :
        /\ pc[c] = "exec" => req[c] = OwnRequest(op[c], arg[c])
        /\ (pc[c] = "done" /\ nExec[c] = 1) =>
              /\ sent[c] = OwnRequest(op[c], arg[c])
              /\ ret[c].err = reported[c]
              /\ (ret[c].err = NoErr /\ op[c] \in {"Create", "Get"}) =>
                    /\ ret[c].lb = PtrTo(resp[c].load_balancer)
                    /\ op[c] = "Create" =>
                          Deref(ret[c].lb).Label = arg[c].lbReq.Label
                    /\ op[c] = "Get" => Deref(ret[c].lb).ID = arg[c].ID

\* Two Create calls with different write models in flight at once, each
\* built and neither executed yet.
C6_Witness ==
    \E c, d \in Callers :
        /\ op[c] = "Create" /\ arg[c].lbReq = WebReq /\ pc[c] = "exec"
        /\ op[d] = "Create" /\ arg[d].lbReq = ApiReq /\ pc[d] = "exec"
        /\ req[c].body # req[d].body

\* C7: a successful listing returns the entities of the decoded array in
\* the order of the array, and the decoded meta when the response has one,
\* nil when it has none.
C7_ListVerbatim ==
    \A c \in Callers :
        (pc[c] = "done" /\ op[c] \in ListOps /\ ret[c].err = NoErr) =>
            /\ (op[c] = "List" /\ "load_balancers" \in resp[c].has) =>
                  ~ret[c].lbs.nil /\ ret[c].lbs.elems = resp[c].load_balancers
            /\ (op[c] = "ListForwardingRules" /\ "forwarding_rules" \in resp[c].has) =>
                  ~ret[c].rules.nil /\ ret[c].rules.elems = resp[c].forwarding_rules
            /\ "meta" \in resp[c].has => ret[c].meta = PtrTo(resp[c].meta)
            /\ "meta" \notin resp[c].has => IsNil(ret[c].meta)

C7_Witness ==
    \E c \in Callers :
        /\ pc[c] = "done" /\ op[c] = "List" /\ ret[c].err = NoErr
        /\ Len(ret[c].lbs.elems) = 2
        /\ ret[c].lbs.elems[1].ID = "lb-2"
        /\ ret[c].lbs.elems[2].ID = "lb-1"
        /\ ret[c].meta = PtrTo([Total |-> 2])

\* The key under which the envelope of an operation carries its entity.
ExpectedKey(o) ==
    IF o \in {"Create", "Get"} THEN "load_balancer" ELSE "forwarding_rule"

\* C8: when DoWithContext succeeds and the decoded body lacks the
\* envelope's key, Create, Get, CreateForwardingRule and GetForwardingRule
\* return nil and no error.
C8_MissingKeyIsNil ==
    \A c \in Callers :
        ( /\ pc[c] = "done"
          /\ op[c] \in {"Create", "Get", "CreateForwardingRule", "GetForwardingRule"}
          /\ nExec[c] = 1
          /\ reported[c] = NoErr
          /\ ExpectedKey(op[c]) \notin resp[c].has )
        => ret[c] = NoRet

C8_Witness ==
    \E c \in Callers :
        /\ pc[c] = "done" /\ op[c] = "CreateForwardingRule"
        /\ nExec[c] = 1 /\ reported[c] = NoErr
        /\ resp[c].status = StatusOK
        /\ "forwarding_rule" \notin resp[c].has
        /\ ret[c] = NoRet

\* C9: a Delete or DeleteForwardingRule that reaches a healthy server not
\* holding what it addresses returns RemoteError 404; neither ever returns
\* success unless the server held it; in particular a Delete of an
\* identifier deleted before and not assigned again returns RemoteError 404.
C9_DeleteNotFound ==
    \A c \in Callers :
        (pc[c] = "done" /\ op[c] \in {"Delete", "DeleteForwardingRule"}) =>
            /\ (fault[c] = "none" /\ ~existed[c]) =>
                  ret[c].err = RemoteError(StatusNotFound)
            /\ ret[c].err = NoErr => (existed[c] /\ fault[c] = "none")
            /\ (op[c] = "Delete" /\ fault[c] = "none" /\ gone[c]) =>
                  ret[c].err = RemoteError(StatusNotFound)

C9_Witness ==
    \E c \in Callers :
        /\ pc[c] = "done" /\ op[c] = "Delete" /\ arg[c].ID = "lb-1"
        /\ fault[c] = "none" /\ gone[c]
        /\ ret[c].err = RemoteError(StatusNotFound)

\* The query string of each pagination option the callers draw.
QueryOf(p) ==
    CASE p = NilPtr -> ""
      [] p = PtrTo(ZeroListOptions) -> ""
      [] p = PtrTo([PerPage |-> 25, Cursor |-> "abc"]) -> "cursor=abc&limit=25"
      [] p = PtrTo([PerPage |-> 25, Cursor |-> ""]) -> "limit=25"
      [] p = PtrTo([PerPage |-> 0, Cursor |-> "a b"]) -> "cursor=a+b"

\* C10: the URL of a listing request is a function of the operation, the
\* parent identifier and the pagination options alone: its path is the
\* table's and its query string is fixed by the options, empty for absent
\* or default options and holding both parameters when both are given.
C10_QueryFromOptions ==
    \A c \in Callers :
        (op[c] \in ListOps /\ (pc[c] = "exec" \/ (pc[c] = "done" /\ nExec[c] = 1))) =>
            /\ req[c].path = RestPath(Target(op[c], arg[c].ID, arg[c].RuleID))
            /\ req[c].query = QueryOf(arg[c].options)
            /\ pc[c] = "done" => sent[c] = req[c]

C10_Witness ==
    \E c \in Callers :
        /\ pc[c] = "done" /\ op[c] = "ListForwardingRules" /\ nExec[c] = 1
        /\ arg[c].ID = "lb-2"
        /\ arg[c].options = PtrTo([PerPage |-> 25, Cursor |-> "abc"])
        /\ sent[c].path = "/v2/load-balancers/lb-2/forwarding-rules"
        /\ sent[c].query = "cursor=abc&limit=25"

=============================================================================
